---- MODULE Spec2Model ----
(***************************************************************************)
(* A model of lambda/dq_notification_formatter.py: the Lambda handler that *)
(* formats the result of a Glue Data Quality ruleset run and publishes it  *)
(* to an SNS topic, and the helper that formats the run's duration.        *)
(*                                                                         *)
(* Python values are records tagged with their type, each type with a      *)
(* field of its own for its content.  A str is modelled by its text: a     *)
(* sequence of pieces whose concatenation is the string, so that "+", "+=" *)
(* and f-strings are sequence concatenation and "" is << >>.  A newline is *)
(* always a piece of its own ("\n"), and the text of the ENVIRONMENT       *)
(* variable is held one character per piece, so that upper() can act on    *)
(* it character by character.                                              *)
(***************************************************************************)
EXTENDS Integers, Sequences, FiniteSets, TLC

VARIABLES
    os_environ,      \* the process environment (os.environ), a dict of str
    pc,              \* where the handler stands: "idle", "try", "lookup",
                     \* "format", "publish", "returned", "raised"
    event,           \* the event of the running (or last) invocation
    environment,     \* local of lambda_handler, line 40
    sns_topic_arn,   \* local of lambda_handler, line 41
    message_text,    \* local of lambda_handler, line 46
    subject_text,    \* local of lambda_handler, line 47
    response,        \* what get_data_quality_result gave: a dict, or a raise
    ack,             \* what publish gave: a dict, or a raise
    glue_calls,      \* the get_data_quality_result calls of this invocation
    sns_calls,       \* the publish calls of this invocation
    returned,        \* the values this invocation returned to the runtime
    raised,          \* the exceptions this invocation let out to the runtime
    ninv,            \* number of invocations started
    log,             \* completed invocations: what went in, what came out
    start_time,      \* argument of a direct call of get_execution_time
    end_time,        \* argument of a direct call of get_execution_time
    execution_time,  \* its return value
    tpc              \* "call" before that call, "returned" after it

vars == <<os_environ, pc, event, environment, sns_topic_arn, message_text,
          subject_text, response, ack, glue_calls, sns_calls, returned,
          raised, ninv, log, start_time, end_time, execution_time, tpc>>

handler_vars == <<os_environ, pc, event, environment, sns_topic_arn,
                  message_text, subject_text, response, ack, glue_calls,
                  sns_calls, returned, raised, ninv, log>>

time_vars == <<start_time, end_time, execution_time, tpc>>

-----------------------------------------------------------------------------
(* Bounds of the model *)

\* the largest day count of a timestamp handed to get_execution_time
MaxDays == 2
\* the largest number of RuleResults in a lookup response
MaxRules == 2
\* the number of invocations followed when invocations are compared
MaxInvocations == 2

-----------------------------------------------------------------------------
(* Python values *)

None == [t |-> "None"]
PyStr(text) == [t |-> "str", text |-> text]
PyInt(n) == [t |-> "int", num |-> n]
PyList(items) == [t |-> "list", items |-> items]
PyDict(f) == [t |-> "dict", map |-> f]
PyDateTime(secs, micros) == [t |-> "datetime", s |-> secs, us |-> micros]

\* a raised exception, as the value of the expression that raised it
Raise(type, arg) == [t |-> "raise", type |-> type, arg |-> arg]
IsRaise(x) == x.t = "raise"

\* the result of a step of the handler's try block: the locals it leaves, or
\* the exception that left it
Ok(text) == [t |-> "ok", v |-> text]

\* str(x)
str(x) ==
    CASE x.t = "str" -> x.text
      [] x.t = "int" -> <<ToString(x.num)>>
      [] x.t = "None" -> <<"None">>

\* d[key] for a str key
GetItem(d, key) ==
    IF IsRaise(d) THEN d
    ELSE IF d.t = "dict"
         THEN IF key \in DOMAIN d.map THEN d.map[key] ELSE Raise("KeyError", key)
         ELSE Raise("TypeError", key)

\* d[path[1]][path[2]]...
RECURSIVE GetPath(_, _)
GetPath(d, path) ==
    IF path = <<>> THEN d ELSE GetPath(GetItem(d, Head(path)), Tail(path))

\* x[0]
GetFirst(x) ==
    IF IsRaise(x) THEN x
    ELSE IF x.t = "list"
         THEN IF Len(x.items) > 0 THEN x.items[1] ELSE Raise("IndexError", "0")
         ELSE Raise("TypeError", "0")

\* d.get(key): os.environ.get gives None for a variable that is not set
DictGet(d, key) == IF key \in DOMAIN d.map THEN d.map[key] ELSE None

\* key in d
HasKey(d, key) == key \in DOMAIN d.map

\* sep.join(parts), parts a sequence of texts
RECURSIVE Join(_, _)
Join(sep, parts) ==
    IF parts = <<>> THEN <<>>
    ELSE IF Len(parts) = 1 THEN parts[1]
    ELSE parts[1] \o sep \o Join(sep, Tail(parts))

\* filter(None, parts): drops the empty strings
FilterNonEmpty(parts) == SelectSeq(parts, LAMBDA p : p # <<>>)

-----------------------------------------------------------------------------
(* get_execution_time *)

\* end_time - start_time of two datetimes: the normalised timedelta, with
\* 0 <= seconds < 86400 and 0 <= microseconds < 1000000
TimeDelta(finish, start) ==
    LET dus == finish.us - start.us
        secs == (finish.s - start.s) + (dus \div 1000000)
    IN  [days |-> secs \div 86400,
         seconds |-> secs % 86400,
         microseconds |-> dus % 1000000]

\* ExecutionTimeParts with the seconds taken from the seconds of the hour,
\* the second divmod left out
BadDivmodParts(start, finish) ==
    LET time_difference == TimeDelta(finish, start)
        days == time_difference.days
        hours == time_difference.seconds \div 3600
        remainder == time_difference.seconds % 3600
        minutes == remainder \div 60
        seconds == time_difference.seconds % 3600
    IN  [days |-> days, hours |-> hours, minutes |-> minutes, seconds |-> seconds]

\* the components of lines 17-20: days, hours, minutes and seconds
ExecutionTimeParts(start, finish) ==
    LET time_difference == TimeDelta(finish, start)
        days == time_difference.days
        hours == time_difference.seconds \div 3600
        remainder == time_difference.seconds % 3600
        minutes == remainder \div 60
        seconds == remainder % 60
    IN  [days |-> days, hours |-> hours, minutes |-> minutes, seconds |-> seconds]

\* f"{n} unit" if n else ""
Component(n, unit) == IF n # 0 THEN <<ToString(n), unit>> ELSE <<>>

\* get_execution_time without filter(None, ...): empty components are joined too
UnfilteredExecutionTime(start, finish) ==
    LET p == ExecutionTimeParts(start, finish)
    IN  Join(<<" ">>, <<Component(p.days, " days"),
                         Component(p.hours, " hours"),
                         Component(p.minutes, " minutes"),
                         Component(p.seconds, " seconds")>>)

get_execution_time(start, finish) ==
    LET p == ExecutionTimeParts(start, finish)
    IN  Join(<<" ">>, FilterNonEmpty(<<Component(p.days, " days"),
                                        Component(p.hours, " hours"),
                                        Component(p.minutes, " minutes"),
                                        Component(p.seconds, " seconds")>>))

-----------------------------------------------------------------------------
(* lambda_handler: the steps of its try block *)

GLUE_DATA_CATALOG == <<"GLUE_DATA_CATALOG">>

\* str.upper(), character by character
LowerCase == <<"a", "b", "c", "d", "e", "f", "g", "h", "i", "j", "k", "l", "m",
               "n", "o", "p", "q", "r", "s", "t", "u", "v", "w", "x", "y", "z">>
UpperCase == <<"A", "B", "C", "D", "E", "F", "G", "H", "I", "J", "K", "L", "M",
               "N", "O", "P", "Q", "R", "S", "T", "U", "V", "W", "X", "Y", "Z">>
UpperChar(c) ==
    IF \E i \in 1..Len(LowerCase) : LowerCase[i] = c
    THEN UpperCase[CHOOSE i \in 1..Len(LowerCase) : LowerCase[i] = c]
    ELSE c

\* Upper without the upper-casing
UpperForgotten(x) ==
    IF x.t = "str" THEN x ELSE Raise("AttributeError", "upper")

\* x.upper(): None has no such attribute
Upper(x) ==
    IF x.t = "str"
    THEN PyStr([i \in 1..Len(x.text) |-> UpperChar(x.text[i])])
    ELSE Raise("AttributeError", "upper")

\* the header lines 51-60 in order: the label, the event path of the value,
\* and whether the first element of the value is taken
HeaderFields == <<
    [label |-> "Ruleset Name: ", path |-> <<"detail", "rulesetNames">>, first |-> TRUE],
    [label |-> "Glue Table Name: ", path |-> <<"detail", "context", "tableName">>, first |-> FALSE],
    [label |-> "Glue Database Name: ", path |-> <<"detail", "context", "databaseName">>, first |-> FALSE],
    [label |-> "Run ID: ", path |-> <<"detail", "context", "runId">>, first |-> FALSE],
    [label |-> "Result ID: ", path |-> <<"detail", "resultId">>, first |-> FALSE],
    [label |-> "State: ", path |-> <<"detail", "state">>, first |-> FALSE],
    [label |-> "Score: ", path |-> <<"detail", "score">>, first |-> FALSE],
    [label |-> "No of rules succeeded: ", path |-> <<"detail", "numRulesSucceeded">>, first |-> FALSE],
    [label |-> "No of rules failed: ", path |-> <<"detail", "numRulesFailed">>, first |-> FALSE],
    [label |-> "No of rules skipped: ", path |-> <<"detail", "numRulesSkipped">>, first |-> FALSE] >>

\* the value a header line prints
HeaderValue(ev, f) ==
    IF f.first THEN GetFirst(GetPath(ev, f.path)) ELSE GetPath(ev, f.path)

\* message_text += f"{label}{str(value)}\n" for the fields in order; the
\* first access that raises ends it
RECURSIVE AppendHeaderLines(_, _, _)
AppendHeaderLines(text, ev, fields) ==
    IF fields = <<>> THEN Ok(text)
    ELSE LET f == Head(fields)
             val == HeaderValue(ev, f)
         IN  IF IsRaise(val) THEN val
             ELSE AppendHeaderLines(text \o <<f.label>> \o str(val) \o <<"\n">>,
                                    ev, Tail(fields))

\* line 62
SubjectLine(env, ev) ==
    LET up == Upper(env)
        name == GetFirst(GetPath(ev, <<"detail", "rulesetNames">>))
    IN  IF IsRaise(up) THEN up
        ELSE IF IsRaise(name) THEN name
        ELSE Ok(<<"[">> \o up.text \o <<"] Glue DQ Ruleset - ">> \o str(name)
                \o <<" run details">>)

\* HeaderStep that refuses an event of another context type
HeaderStepShortCircuit(ev, env, msg, subj) ==
    LET ctype == GetPath(ev, <<"detail", "context", "contextType">>)
    IN  IF IsRaise(ctype) THEN ctype
        ELSE IF ctype.t = "str" /\ ctype.text = GLUE_DATA_CATALOG
        THEN LET lines == AppendHeaderLines(
                              msg \o <<"Glue Data Quality run details:", "\n">>,
                              ev, HeaderFields)
                 subject == SubjectLine(env, ev)
             IN  IF IsRaise(lines) THEN lines
                 ELSE IF IsRaise(subject) THEN subject
                 ELSE [t |-> "ok", message_text |-> lines.v,
                       subject_text |-> subject.v]
        ELSE Raise("ValueError", "contextType")

\* HeaderStep with environment.upper() evaluated before the branch
HeaderStepUpperFirst(ev, env, msg, subj) ==
    LET ctype == GetPath(ev, <<"detail", "context", "contextType">>)
        label == Upper(env)
    IN  IF IsRaise(ctype) THEN ctype
        ELSE IF IsRaise(label) THEN label
        ELSE IF ctype.t = "str" /\ ctype.text = GLUE_DATA_CATALOG
        THEN LET lines == AppendHeaderLines(
                              msg \o <<"Glue Data Quality run details:", "\n">>,
                              ev, HeaderFields)
                 subject == SubjectLine(env, ev)
             IN  IF IsRaise(lines) THEN lines
                 ELSE IF IsRaise(subject) THEN subject
                 ELSE [t |-> "ok", message_text |-> lines.v,
                       subject_text |-> subject.v]
        ELSE [t |-> "ok", message_text |-> msg, subject_text |-> subj]

\* lines 49-62: the locals message_text and subject_text after the header
\* branch, or the exception raised in it
HeaderStep(ev, env, msg, subj) ==
    LET ctype == GetPath(ev, <<"detail", "context", "contextType">>)
    IN  IF IsRaise(ctype) THEN ctype
        ELSE IF ctype.t = "str" /\ ctype.text = GLUE_DATA_CATALOG
        THEN LET lines == AppendHeaderLines(
                              msg \o <<"Glue Data Quality run details:", "\n">>,
                              ev, HeaderFields)
                 subject == SubjectLine(env, ev)
             IN  IF IsRaise(lines) THEN lines
                 ELSE IF IsRaise(subject) THEN subject
                 ELSE [t |-> "ok", message_text |-> lines.v,
                       subject_text |-> subject.v]
        ELSE [t |-> "ok", message_text |-> msg, subject_text |-> subj]

\* line 64
ResultId(ev) ==
    LET r == GetPath(ev, <<"detail", "resultId">>)
    IN  IF IsRaise(r) THEN r ELSE PyStr(str(r))

\* RuleLine with the EvaluationMessage segment always appended, the message
\* read as ruleset.get('EvaluationMessage', '')
RuleLineAlwaysMessage(ruleset) ==
    LET name == GetItem(ruleset, "Name")
        result == GetItem(ruleset, "Result")
        description == GetItem(ruleset, "Description")
    IN  IF IsRaise(name) THEN name
        ELSE IF IsRaise(result) THEN result
        ELSE IF IsRaise(description) THEN description
        ELSE Ok(<<"Name: ">> \o str(name) \o <<"\t\tResult: ">> \o str(result)
                \o <<"\t\tDescription: \t">> \o str(description)
                \o <<"\t\tEvaluationMessage: ">>
                \o (IF HasKey(ruleset, "EvaluationMessage")
                    THEN str(GetItem(ruleset, "EvaluationMessage"))
                    ELSE <<>>))

\* lines 78-80: the line of one RuleResult
RuleLine(ruleset) ==
    LET name == GetItem(ruleset, "Name")
        result == GetItem(ruleset, "Result")
        description == GetItem(ruleset, "Description")
    IN  IF IsRaise(name) THEN name
        ELSE IF IsRaise(result) THEN result
        ELSE IF IsRaise(description) THEN description
        ELSE Ok(<<"Name: ">> \o str(name) \o <<"\t\tResult: ">> \o str(result)
                \o <<"\t\tDescription: \t">> \o str(description)
                \o (IF HasKey(ruleset, "EvaluationMessage")
                    THEN <<"\t\tEvaluationMessage: ">>
                         \o str(GetItem(ruleset, "EvaluationMessage"))
                    ELSE <<>>))

\* lines 77-87: message_text += "\n" + subresult for each RuleResult in order;
\* subresult_info is built and never read
RECURSIVE AppendRuleLines(_, _)
AppendRuleLines(text, rule_results) ==
    IF rule_results = <<>> THEN Ok(text)
    ELSE LET subresult == RuleLine(Head(rule_results))
         IN  IF IsRaise(subresult) THEN subresult
             ELSE AppendRuleLines(text \o <<"\n">> \o subresult.v,
                                  Tail(rule_results))

\* lines 68-87: message_text after the formatting, or the exception raised
FormatStep(resp, msg) ==
    LET rule_results == GetItem(resp, "RuleResults")
        ruleset_start_time == GetItem(resp, "StartedOn")
        ruleset_end_time == GetItem(resp, "CompletedOn")
    IN  IF IsRaise(rule_results) THEN rule_results
        ELSE IF IsRaise(ruleset_start_time) THEN ruleset_start_time
        ELSE IF IsRaise(ruleset_end_time) THEN ruleset_end_time
        ELSE IF ruleset_start_time.t # "datetime" \/ ruleset_end_time.t # "datetime"
        THEN Raise("TypeError", "-")
        ELSE IF rule_results.t # "list" THEN Raise("TypeError", "iter")
        ELSE AppendRuleLines(
                 msg \o <<"Ruleset execution time: ">>
                     \o get_execution_time(ruleset_start_time, ruleset_end_time)
                     \o <<"\n">>
                     \o <<"\n", "\n", "Ruleset details evaluation steps results:",
                          "\n", "\n">>,
                 rule_results.items)

\* line 95: the error the except clause raises for the exception it caught
ErrorMessage == <<"ERROR - ran into error while parsing ruleset or publishing to SNS">>
ValueError(exception) ==
    [t |-> "raise", type |-> "ValueError",
     args |-> <<PyStr(ErrorMessage), exception>>, cause |-> exception]

\* lines 97-100; json.dumps of a str without quotes or escapes puts it in quotes
json_dumps(text) == <<"\"">> \o text \o <<"\"">>
SuccessValue ==
    [statusCode |-> 200, body |-> json_dumps(<<"Message published to SNS topic">>)]

-----------------------------------------------------------------------------
(* The inputs: events, process environments, collaborators' answers *)

\* a dict without one of its keys
Without(d, key) == PyDict([k \in DOMAIN d.map \ {key} |-> d.map[k]])
\* a dict with one of its values replaced
With(d, key, val) == PyDict([d.map EXCEPT ![key] = val])

ContextOf(ctype) ==
    PyDict([contextType |-> PyStr(<<ctype>>),
            tableName |-> PyStr(<<"orders">>),
            databaseName |-> PyStr(<<"sales">>),
            runId |-> PyStr(<<"dqrun-1">>)])

DetailOf(ctype, name) ==
    PyDict([context |-> ContextOf(ctype),
            rulesetNames |-> PyList(<<PyStr(<<name>>), PyStr(<<"other">>)>>),
            resultId |-> PyStr(<<"dqresult-1">>),
            state |-> PyStr(<<"SUCCEEDED">>),
            score |-> PyInt(1),
            numRulesSucceeded |-> PyInt(12),
            numRulesFailed |-> PyInt(0),
            numRulesSkipped |-> PyInt(3)])

\* a well-formed event
EventOf(ctype, name) == PyDict([detail |-> DetailOf(ctype, name)])

ContextKeys == {"contextType", "tableName", "databaseName", "runId"}
DetailKeys == {"context", "rulesetNames", "resultId", "state", "score",
               "numRulesSucceeded", "numRulesFailed", "numRulesSkipped"}
ContextTypes == {"GLUE_DATA_CATALOG", "GLUE_JOB"}

\* well-formed events, events that lack one key at any level, events whose
\* rulesetNames is empty, events with a null value or a number for a resultId
Events ==
    {EventOf(c, "myRuleset") : c \in ContextTypes}
    \cup {PyDict([detail |-> Without(DetailOf(c, "myRuleset"), k)]) :
             c \in ContextTypes, k \in DetailKeys}
    \cup {PyDict([detail |-> With(DetailOf(c, "myRuleset"), "context",
                                  Without(ContextOf(c), k))]) :
             c \in ContextTypes, k \in ContextKeys}
    \cup {PyDict([detail |-> With(DetailOf(c, "myRuleset"), "rulesetNames",
                                  PyList(<<>>))]) : c \in ContextTypes}
    \cup {PyDict([detail |-> With(DetailOf(c, "myRuleset"), "state", None)]) :
             c \in ContextTypes}
    \cup {PyDict([detail |-> With(DetailOf(c, "myRuleset"), "resultId", PyInt(7))]) :
             c \in ContextTypes}
    \cup {PyDict(<<>>)}

FewEvents ==
    {EventOf("GLUE_DATA_CATALOG", "myRuleset"),
     EventOf("GLUE_DATA_CATALOG", "nightly"),
     EventOf("GLUE_JOB", "myRuleset"),
     PyDict([detail |-> With(DetailOf("GLUE_DATA_CATALOG", "myRuleset"), "context",
                             Without(ContextOf("GLUE_DATA_CATALOG"), "tableName"))])}

Prod == PyStr(<<"p", "r", "o", "d">>)
Dev1 == PyStr(<<"D", "e", "v", "-", "1">>)
Topic == PyStr(<<"arn:aws:sns:eu-west-1:1:dq">>)

\* process environments: both variables set, or one of them not set
Environs ==
    {PyDict([ENVIRONMENT |-> Prod, SNS_TOPIC_ARN |-> Topic]),
     PyDict([ENVIRONMENT |-> Dev1, SNS_TOPIC_ARN |-> Topic]),
     PyDict([SNS_TOPIC_ARN |-> Topic]),
     PyDict([ENVIRONMENT |-> Prod])}

FewEnvirons ==
    {PyDict([ENVIRONMENT |-> Prod, SNS_TOPIC_ARN |-> Topic]),
     PyDict([ENVIRONMENT |-> Dev1, SNS_TOPIC_ARN |-> Topic]),
     PyDict([SNS_TOPIC_ARN |-> Topic])}

\* RuleResults: one that passed, one that failed and has an EvaluationMessage,
\* one that has no Description
RulePassed ==
    PyDict([Name |-> PyStr(<<"Rule_1">>), Result |-> PyStr(<<"PASS">>),
            Description |-> PyStr(<<"IsComplete \"id\"">>)])
RuleFailed ==
    PyDict([Name |-> PyStr(<<"Rule_2">>), Result |-> PyStr(<<"FAIL">>),
            Description |-> PyStr(<<"RowCount > 10">>),
            EvaluationMessage |-> PyStr(<<"Value: 3 does not meet the constraint">>)])
RuleBare ==
    PyDict([Name |-> PyStr(<<"Rule_3">>), Result |-> PyStr(<<"ERROR">>)])
Rules == {RulePassed, RuleFailed, RuleBare}

RuleSeqs == UNION {[1..n -> Rules] : n \in 0..MaxRules}

\* 2024-01-01T00:00:00 is second 0 of the model's clock
T0 == PyDateTime(0, 0)
\* 2024-01-03T02:05:09
T1 == PyDateTime(2 * 86400 + 2 * 3600 + 5 * 60 + 9, 0)

LookupError == Raise("ClientError", "GetDataQualityResult")
PublishError == Raise("ClientError", "Publish")

\* what get_data_quality_result can give: an exception, a QualityResult, or a
\* response that lacks one of the keys the handler reads
ResponseOf(rs, started, completed) ==
    PyDict([RuleResults |-> PyList(rs), StartedOn |-> started,
            CompletedOn |-> completed])
Responses ==
    {LookupError}
    \cup {ResponseOf(rs, T0, t) : rs \in RuleSeqs, t \in {T0, T1}}
    \cup {Without(ResponseOf(<<RulePassed>>, T0, T1), k) :
             k \in {"RuleResults", "StartedOn", "CompletedOn"}}

FewResponses ==
    {LookupError, ResponseOf(<<RuleFailed>>, T0, T1), ResponseOf(<<>>, T0, T0)}

\* what publish can give: an exception or the acknowledgement
PublishAck == PyDict([MessageId |-> PyStr(<<"m-1">>)])
Acks == {PublishError, PublishAck}

\* a local that is not bound yet
Unbound == [t |-> "unbound"]

-----------------------------------------------------------------------------
(* lambda_handler as steps *)

Running == {"try", "lookup", "format", "publish"}
Terminal == {"returned", "raised"}

\* Except that lets the exception out as it is
ExceptBare(exception) ==
    /\ pc' = "raised"
    /\ raised' = Append(raised, exception)
    /\ UNCHANGED returned

\* Except that swallows the exception and goes on to the return
ExceptSwallow(exception) ==
    /\ pc' = "returned"
    /\ returned' = Append(returned, SuccessValue)
    /\ UNCHANGED raised

\* lines 94-95: an exception raised in the try block leaves the handler as
\* the ValueError that wraps it; the locals of the frame are lost with it
Except(exception) ==
    /\ pc' = "raised"
    /\ raised' = Append(raised, ValueError(exception))
    /\ UNCHANGED returned

\* a change of the process environment between two invocations
SetEnviron(environs) ==
    /\ pc \in {"idle"} \cup Terminal
    /\ \E e \in environs : e # os_environ /\ os_environ' = e
    /\ UNCHANGED <<pc, event, environment, sns_topic_arn, message_text,
                   subject_text, response, ack, glue_calls, sns_calls,
                   returned, raised>>
    /\ UNCHANGED time_vars

\* Invoke with message_text and subject_text kept from the call before, as
\* module-level variables would be
InvokeKeepText(events) ==
    /\ pc \in {"idle"} \cup Terminal
    /\ \E ev \in events : event' = ev
    /\ environment' = DictGet(os_environ, "ENVIRONMENT")
    /\ sns_topic_arn' = DictGet(os_environ, "SNS_TOPIC_ARN")
    /\ response' = Unbound
    /\ ack' = Unbound
    /\ glue_calls' = <<>>
    /\ sns_calls' = <<>>
    /\ returned' = <<>>
    /\ raised' = <<>>
    /\ pc' = "try"
    /\ UNCHANGED <<os_environ, message_text, subject_text>>
    /\ UNCHANGED time_vars

\* lines 33-47: the runtime calls lambda_handler(event, context); the
\* configuration is read and the locals are bound
Invoke(events) ==
    /\ pc \in {"idle"} \cup Terminal
    /\ \E ev \in events : event' = ev
    /\ environment' = DictGet(os_environ, "ENVIRONMENT")
    /\ sns_topic_arn' = DictGet(os_environ, "SNS_TOPIC_ARN")
    /\ message_text' = <<>>
    /\ subject_text' = <<>>
    /\ response' = Unbound
    /\ ack' = Unbound
    /\ glue_calls' = <<>>
    /\ sns_calls' = <<>>
    /\ returned' = <<>>
    /\ raised' = <<>>
    /\ pc' = "try"
    /\ UNCHANGED os_environ
    /\ UNCHANGED time_vars

\* lines 49-62: the header and the subject, for a GLUE_DATA_CATALOG event
BuildHeader ==
    /\ pc = "try"
    /\ LET h == HeaderStep(event, environment, message_text, subject_text)
       IN  IF IsRaise(h)
           THEN /\ Except(h)
                /\ UNCHANGED <<message_text, subject_text>>
           ELSE /\ message_text' = h.message_text
                /\ subject_text' = h.subject_text
                /\ pc' = "lookup"
                /\ UNCHANGED <<returned, raised>>
    /\ UNCHANGED <<os_environ, event, environment, sns_topic_arn, response, ack,
                   glue_calls, sns_calls>>
    /\ UNCHANGED time_vars

\* GetResult that publishes what has been composed when the lookup fails
GetResultThenPublish(responses) ==
    /\ pc = "lookup"
    /\ LET result_id == ResultId(event)
       IN  IF IsRaise(result_id)
           THEN /\ Except(result_id)
                /\ UNCHANGED <<response, glue_calls, sns_calls>>
           ELSE /\ glue_calls' = Append(glue_calls, [ResultId |-> result_id])
                /\ \E r \in responses :
                      /\ response' = r
                      /\ IF IsRaise(r)
                         THEN /\ Except(r)
                              /\ sns_calls' =
                                    Append(sns_calls,
                                           [TopicArn |-> sns_topic_arn,
                                            Message |-> PyStr(message_text),
                                            Subject |-> PyStr(subject_text)])
                         ELSE /\ pc' = "format"
                              /\ UNCHANGED <<returned, raised, sns_calls>>
    /\ UNCHANGED <<os_environ, event, environment, sns_topic_arn, message_text,
                   subject_text, ack>>
    /\ UNCHANGED time_vars

\* lines 64-66: the lookup of the quality result (the print of line 65
\* writes to the log only)
GetResult(responses) ==
    /\ pc = "lookup"
    /\ LET result_id == ResultId(event)
       IN  IF IsRaise(result_id)
           THEN /\ Except(result_id)
                /\ UNCHANGED <<response, glue_calls>>
           ELSE /\ glue_calls' = Append(glue_calls, [ResultId |-> result_id])
                /\ \E r \in responses :
                      /\ response' = r
                      /\ IF IsRaise(r)
                         THEN Except(r)
                         ELSE /\ pc' = "format"
                              /\ UNCHANGED <<returned, raised>>
    /\ UNCHANGED <<os_environ, event, environment, sns_topic_arn, message_text,
                   subject_text, ack, sns_calls>>
    /\ UNCHANGED time_vars

\* lines 68-87: the execution time and the RuleResults
FormatBody ==
    /\ pc = "format"
    /\ LET f == FormatStep(response, message_text)
       IN  IF IsRaise(f)
           THEN /\ Except(f)
                /\ UNCHANGED message_text
           ELSE /\ message_text' = f.v
                /\ pc' = "publish"
                /\ UNCHANGED <<returned, raised>>
    /\ UNCHANGED <<os_environ, event, environment, sns_topic_arn, subject_text,
                   response, ack, glue_calls, sns_calls>>
    /\ UNCHANGED time_vars

\* lines 89-100: the publish call, and the return after it
Publish ==
    /\ pc = "publish"
    /\ sns_calls' = Append(sns_calls, [TopicArn |-> sns_topic_arn,
                                       Message |-> PyStr(message_text),
                                       Subject |-> PyStr(subject_text)])
    /\ \E a \in Acks :
          /\ ack' = a
          /\ IF IsRaise(a)
             THEN Except(a)
             ELSE /\ pc' = "returned"
                  /\ returned' = Append(returned, SuccessValue)
                  /\ UNCHANGED raised
    /\ UNCHANGED <<os_environ, event, environment, sns_topic_arn, message_text,
                   subject_text, response, glue_calls>>
    /\ UNCHANGED time_vars

-----------------------------------------------------------------------------
(* Spec: invocations one after another, on any event, any answers *)

InitHandler ==
    /\ pc = "idle"
    /\ event = Unbound
    /\ environment = Unbound
    /\ sns_topic_arn = Unbound
    /\ message_text = <<>>
    /\ subject_text = <<>>
    /\ response = Unbound
    /\ ack = Unbound
    /\ glue_calls = <<>>
    /\ sns_calls = <<>>
    /\ returned = <<>>
    /\ raised = <<>>
    /\ ninv = 0
    /\ log = {}

InitTimeIdle ==
    /\ start_time = T0
    /\ end_time = T0
    /\ execution_time = Unbound
    /\ tpc = "idle"

Init ==
    /\ os_environ \in Environs
    /\ InitHandler
    /\ InitTimeIdle

Next ==
    \/ SetEnviron(Environs) /\ UNCHANGED <<ninv, log>>
    \/ Invoke(Events) /\ UNCHANGED <<ninv, log>>
    \/ BuildHeader /\ UNCHANGED <<ninv, log>>
    \/ GetResult(Responses) /\ UNCHANGED <<ninv, log>>
    \/ FormatBody /\ UNCHANGED <<ninv, log>>
    \/ Publish /\ UNCHANGED <<ninv, log>>

Spec == Init /\ [][Next]_vars

-----------------------------------------------------------------------------
(* SpecSeq: a few invocations in a row, each one logged when it ends *)

\* what an invocation was given, and what it did with it
Entry ==
    [given |-> [event |-> event, environment |-> environment,
                sns_topic_arn |-> sns_topic_arn, response |-> response,
                ack |-> ack],
     did |-> [glue_calls |-> glue_calls, sns_calls |-> sns_calls,
              returned |-> returned, raised |-> raised]]

Logged ==
    /\ ninv' = ninv
    /\ log' = IF pc' \in Terminal THEN log \cup {Entry'} ELSE log

InitSeq ==
    /\ os_environ \in FewEnvirons
    /\ InitHandler
    /\ InitTimeIdle

NextSeq ==
    \/ SetEnviron(FewEnvirons) /\ UNCHANGED <<ninv, log>>
    \/ ninv < MaxInvocations /\ Invoke(FewEvents) /\ ninv' = ninv + 1
          /\ UNCHANGED log
    \/ BuildHeader /\ Logged
    \/ GetResult(FewResponses) /\ Logged
    \/ FormatBody /\ Logged
    \/ Publish /\ Logged

SpecSeq == InitSeq /\ [][NextSeq]_vars

-----------------------------------------------------------------------------
(* SpecTime: get_execution_time called on a pair of timestamps *)

TimeStamps ==
    {PyDateTime(d * 86400 + h * 3600 + m * 60 + sec, us) :
        d \in 0..MaxDays, h \in {0, 2, 23}, m \in {0, 5, 59},
        sec \in {0, 9, 45, 59}, us \in {0, 500000}}

InitTime ==
    /\ os_environ = PyDict([ENVIRONMENT |-> Prod, SNS_TOPIC_ARN |-> Topic])
    /\ InitHandler
    /\ start_time \in TimeStamps
    /\ end_time \in TimeStamps
    /\ execution_time = Unbound
    /\ tpc = "call"

CallGetExecutionTime ==
    /\ tpc = "call"
    /\ execution_time' = PyStr(get_execution_time(start_time, end_time))
    /\ tpc' = "returned"
    /\ UNCHANGED <<start_time, end_time>>
    /\ UNCHANGED handler_vars

NextTime == CallGetExecutionTime

SpecTime == InitTime /\ [][NextTime]_vars

-----------------------------------------------------------------------------
(* Reading a published message back *)

\* the first index of a piece in a text, 0 when it is not there
IndexOf(text, piece) ==
    IF \E i \in 1..Len(text) : text[i] = piece
    THEN CHOOSE i \in 1..Len(text) :
             text[i] = piece /\ \A j \in 1..(i - 1) : text[j] # piece
    ELSE 0

\* the lines of a text: each "\n" ends a line, the rest is the last line
RECURSIVE Lines(_)
Lines(text) ==
    IF text = <<>> THEN <<>>
    ELSE LET i == IndexOf(text, "\n")
         IN  IF i = 0 THEN <<text>>
             ELSE <<SubSeq(text, 1, i - 1)>> \o Lines(SubSeq(text, i + 1, Len(text)))

Heading == <<"Ruleset details evaluation steps results:">>
ExecutionTimeLabel == "Ruleset execution time: "

\* the context type of the event, when it has one
ContextType == GetPath(event, <<"detail", "context", "contextType">>)
IsCatalogEvent ==
    /\ ~IsRaise(ContextType)
    /\ ContextType.t = "str"
    /\ ContextType.text = GLUE_DATA_CATALOG
IsOtherEvent ==
    /\ ~IsRaise(ContextType)
    /\ ~(ContextType.t = "str" /\ ContextType.text = GLUE_DATA_CATALOG)

\* the steps of the running invocation, recomputed from what it was given
HeaderOutcome == HeaderStep(event, environment, <<>>, <<>>)
HeaderFails == IsRaise(HeaderOutcome)
LookupAnswered == response.t = "dict"
FormatFails == LookupAnswered /\ IsRaise(FormatStep(response, <<>>))
PublishAnswered == ack.t = "dict"

\* the RuleResults of the lookup response
RuleResultsOf(resp) == resp.map["RuleResults"].items

\* the published message: the Message and Subject of the publish call
PublishedBody == sns_calls[1].Message.text
PublishedSubject == sns_calls[1].Subject.text

-----------------------------------------------------------------------------
(* The claims *)

\* C1: a publish call is made only after the header step (if any), the
\* lookup, the duration and every rule line have succeeded; when one of them
\* fails no publish call is made; a published body has the execution-time
\* line and one rule line for every RuleResult of the lookup response.
C1_PublishOnlyAfterAllSteps ==
    /\ sns_calls # <<>> =>
          /\ pc \in {"returned", "raised"}
          /\ ~HeaderFails
          /\ Len(glue_calls) = 1
          /\ LookupAnswered
          /\ ~FormatFails
          /\ Len(SelectSeq(PublishedBody, LAMBDA x : x = ExecutionTimeLabel)) = 1
          /\ Len(SelectSeq(PublishedBody, LAMBDA x : x = "Name: "))
                = Len(RuleResultsOf(response))
          /\ \A i \in 1..Len(RuleResultsOf(response)) :
                IndexOf(PublishedBody, RuleResultsOf(response)[i].map["Name"].text[1]) > 0
    /\ (pc \in Terminal /\ (HeaderFails \/ ~LookupAnswered \/ FormatFails)) =>
          sns_calls = <<>>

C1_Witness ==
    /\ pc = "returned"
    /\ Len(sns_calls) = 1
    /\ Len(RuleResultsOf(response)) = 2

\* the exception of the first step that failed, from what the invocation was given
OriginalFailure ==
    IF HeaderFails THEN HeaderOutcome
    ELSE IF IsRaise(ResultId(event)) THEN ResultId(event)
    ELSE IF IsRaise(response) THEN response
    ELSE IF FormatFails THEN FormatStep(response, <<>>)
    ELSE ack

\* C2: a failure in event field access, the lookup call, the formatting or
\* the publish call ends the invocation with exactly one error, the
\* ValueError with the fixed message and the original exception as its
\* cause; nothing is retried, nothing is returned, and after a lookup failure
\* no publish call is made.
C2_SingleWrappedError ==
    /\ pc = "raised" =>
          /\ Len(raised) = 1
          /\ raised[1].type = "ValueError"
          /\ raised[1].args[1] = PyStr(ErrorMessage)
          /\ IsRaise(OriginalFailure)
          /\ raised[1].args[2] = OriginalFailure
          /\ raised[1].cause = OriginalFailure
          /\ returned = <<>>
    /\ pc # "raised" => raised = <<>>
    /\ (IsRaise(response) \/ IsRaise(ack)) => pc = "raised"
    /\ (pc \in Terminal /\ (HeaderFails \/ IsRaise(ResultId(event)) \/ FormatFails))
          => pc = "raised"
    /\ Len(glue_calls) <= 1
    /\ Len(sns_calls) <= 1
    /\ IsRaise(response) => sns_calls = <<>>

C2_Witness ==
    /\ pc = "raised"
    /\ IsRaise(response)
    /\ Len(glue_calls) = 1

\* the terminal states
Success ==
    /\ pc = "returned"
    /\ Len(sns_calls) = 1
    /\ PublishAnswered
    /\ returned = <<[statusCode |-> 200,
                     body |-> <<"\"", "Message published to SNS topic", "\"">>]>>
    /\ raised = <<>>
FailedBeforePublish ==
    /\ pc = "raised"
    /\ Len(raised) = 1
    /\ raised[1].type = "ValueError"
    /\ returned = <<>>
    /\ sns_calls = <<>>
FailedInPublish ==
    /\ pc = "raised"
    /\ Len(raised) = 1
    /\ raised[1].type = "ValueError"
    /\ raised[1].cause = ack
    /\ returned = <<>>
    /\ Len(sns_calls) = 1
    /\ IsRaise(ack)
HeaderBlock == SubSeq(PublishedBody, 1, IndexOf(PublishedBody, ExecutionTimeLabel) - 1)
\* the field lines of the header block: those after its title line
FieldLines == Tail(Lines(HeaderBlock))
ExpectedSubject ==
    IF environment = Prod
    THEN <<"[", "P", "R", "O", "D", "] Glue DQ Ruleset - ">>
            \o SubSeq(FieldLines[1], 2, Len(FieldLines[1])) \o <<" run details">>
    ELSE <<"[", "D", "E", "V", "-", "1", "] Glue DQ Ruleset - ">>
            \o SubSeq(FieldLines[1], 2, Len(FieldLines[1])) \o <<" run details">>
HeaderLabels ==
    <<"Ruleset Name: ", "Glue Table Name: ", "Glue Database Name: ", "Run ID: ",
      "Result ID: ", "State: ", "Score: ", "No of rules succeeded: ",
      "No of rules failed: ", "No of rules skipped: ">>
SubjectAndHeader(nfields) ==
    sns_calls # <<>> =>
       /\ IsCatalogEvent =>
             /\ PublishedSubject = ExpectedSubject
             /\ Lines(HeaderBlock)[1] = <<"Glue Data Quality run details:">>
             /\ Len(FieldLines) = nfields
             /\ \A i \in 1..Len(FieldLines) :
                   /\ i <= Len(HeaderLabels)
                   /\ FieldLines[i] =
                         <<HeaderLabels[i]>> \o str(HeaderValue(event, HeaderFields[i]))
             /\ FieldLines[1][2] = event.map["detail"].map["rulesetNames"].items[1].text[1]
       /\ IsOtherEvent =>
             /\ PublishedSubject = <<>>
             /\ HeaderBlock = <<>>
\* C4 as the specification states it: for a GLUE_DATA_CATALOG event the
\* published Subject is "[{ENV_UPPER}] Glue DQ Ruleset - {rulesetName} run
\* details" and the published Body starts with a header block of nine fields
\* in fixed order; for another context type the header is skipped and the
\* Subject is empty.
C4_Original == SubjectAndHeader(9)

\* C4 amended: as above, the header block having the ten fields the code
\* writes (ruleset name, table name, database name, run ID, result ID, state,
\* score, and the three counts of succeeded, failed and skipped rules).
C4_SubjectAndHeader == SubjectAndHeader(10)

C4_Witness ==
    /\ pc = "returned"
    /\ IsCatalogEvent
    /\ environment = Dev1
    /\ PublishedSubject[Len(PublishedSubject) - 1] = "myRuleset"

\* what the handler did with the lookup and the publish call
CarriesTypeAndResultId ==
    /\ ~IsRaise(ContextType)
    /\ ~IsRaise(GetPath(event, <<"detail", "resultId">>))
OneLookupByResultId ==
    /\ Len(glue_calls) = 1
    /\ glue_calls[1].ResultId.t = "str"
    /\ glue_calls[1].ResultId.text = str(event.map["detail"].map["resultId"])
PublishedBare ==
    /\ Len(sns_calls) = 1
    /\ PublishedSubject = <<>>
    /\ PublishedBody[1] = ExecutionTimeLabel
\* C5 as the specification states it: for every event that carries
\* detail.context.contextType and detail.resultId the handler makes exactly
\* one lookup call, with the event's resultId; when the header branch was
\* skipped and the lookup succeeds the handler goes on to publish, with an
\* empty Subject and no header, and returns success.
C5_Original ==
    (pc \in Terminal /\ CarriesTypeAndResultId) =>
       /\ OneLookupByResultId
       /\ (IsOtherEvent /\ LookupAnswered) => (PublishedBare /\ pc = "returned")

\* C5 amended: for every event that carries detail.context.contextType and
\* detail.resultId and whose header step does not fail (the context type is
\* not GLUE_DATA_CATALOG, or the header and the subject were built), the
\* handler makes exactly one lookup call, with the string form of the event's
\* resultId; when the header step fails it makes none.  When the header
\* branch was skipped and the lookup answers, the handler does not
\* short-circuit: unless formatting the response fails it makes one publish
\* call, with an empty Subject and no header, and it returns success exactly
\* when that call succeeds.
C5_LookupAlways ==
    (pc \in Terminal /\ CarriesTypeAndResultId) =>
       /\ ~HeaderFails => OneLookupByResultId
       /\ HeaderFails => glue_calls = <<>>
       /\ IsOtherEvent => ~HeaderFails
       /\ (IsOtherEvent /\ LookupAnswered /\ ~FormatFails) =>
             /\ PublishedBare
             /\ (pc = "returned") <=> PublishAnswered
       /\ (IsOtherEvent /\ LookupAnswered /\ FormatFails) => sns_calls = <<>>

C5_Witness ==
    /\ pc = "returned"
    /\ IsOtherEvent
    /\ OneLookupByResultId
    /\ PublishedBare

\* the lines of the published body after the heading, read back
BodyLines == Lines(PublishedBody)
HeadingAt == IndexOf(BodyLines, Heading)
\* the lines after the heading that are not empty
LinesAfterHeading ==
    FilterNonEmpty(SubSeq(BodyLines, HeadingAt + 1, Len(BodyLines)))
ExpectedRuleLine(r) ==
    <<"Name: ", r.map["Name"].text[1], "\t\tResult: ", r.map["Result"].text[1],
      "\t\tDescription: \t", r.map["Description"].text[1]>>
    \o (IF "EvaluationMessage" \in DOMAIN r.map
        THEN <<"\t\tEvaluationMessage: ", r.map["EvaluationMessage"].text[1]>>
        ELSE <<>>)
\* C7: on a successful invocation the published Body has, after the
\* "Ruleset execution time" line and the section heading, exactly one line
\* for each RuleResult of the lookup response, in their order; the line is
\* "Name: {Name}\t\tResult: {Result}\t\tDescription: \t{Description}",
\* followed by "\t\tEvaluationMessage: {msg}" if and only if the RuleResult
\* has the EvaluationMessage field.
C7_RuleLines ==
    pc = "returned" =>
       /\ HeadingAt > 3
       /\ BodyLines[HeadingAt - 3][1] = ExecutionTimeLabel
       /\ BodyLines[HeadingAt - 3] =
             <<ExecutionTimeLabel>>
             \o (IF response.map["CompletedOn"] = T1
                 THEN <<"2", " days", " ", "2", " hours", " ",
                        "5", " minutes", " ", "9", " seconds">>
                 ELSE <<>>)
       /\ Len(LinesAfterHeading) = Len(RuleResultsOf(response))
       /\ \A i \in 1..Len(LinesAfterHeading) :
             /\ LinesAfterHeading[i] = ExpectedRuleLine(RuleResultsOf(response)[i])
             /\ (IndexOf(LinesAfterHeading[i], "\t\tEvaluationMessage: ") > 0)
                   <=> HasKey(RuleResultsOf(response)[i], "EvaluationMessage")

C7_Witness ==
    /\ pc = "returned"
    /\ RuleResultsOf(response) = <<RulePassed, RuleFailed>>
    /\ Len(LinesAfterHeading) = 2

\* C10: when the event is a GLUE_DATA_CATALOG event and building the header
\* or the subject fails (a header field is missing, rulesetNames is empty,
\* ENVIRONMENT is not set), the invocation ends with the wrapped error and
\* neither the lookup call nor the publish call is made; ENVIRONMENT not being
\* set does not fail an event of another context type.
C10_HeaderFailure ==
    /\ (pc \in Running \cup Terminal /\ IsCatalogEvent /\ HeaderFails) =>
          /\ glue_calls = <<>>
          /\ sns_calls = <<>>
          /\ pc \in {"try", "raised"}
          /\ pc = "raised" =>
                /\ Len(raised) = 1
                /\ raised[1].type = "ValueError"
                /\ raised[1].cause.type \in {"KeyError", "IndexError", "AttributeError"}
    /\ (pc \in Running \cup Terminal /\ IsCatalogEvent /\ environment = None) =>
          HeaderFails
    /\ (pc \in Terminal /\ IsOtherEvent /\ environment = None) =>
          /\ ~HeaderFails
          /\ ~IsRaise(ResultId(event)) => Len(glue_calls) = 1
          /\ pc = "raised" => raised[1].cause.type # "AttributeError"

C10_Witness ==
    /\ pc = "raised"
    /\ IsCatalogEvent
    /\ ~IsRaise(HeaderStep(event, Prod, <<>>, <<>>))
    /\ environment = None
    /\ raised[1].cause = Raise("AttributeError", "upper")
    /\ glue_calls = <<>>

TimeParts == ExecutionTimeParts(start_time, end_time)
NonZeroParts ==
    SelectSeq(<<[n |-> TimeParts.days, unit |-> " days"],
                [n |-> TimeParts.hours, unit |-> " hours"],
                [n |-> TimeParts.minutes, unit |-> " minutes"],
                [n |-> TimeParts.seconds, unit |-> " seconds"]>>,
              LAMBDA c : c.n # 0)
\* C6: get_execution_time emits the components among days, hours, minutes
\* and seconds that are not zero, each followed by its unit word, in that
\* order, joined by single spaces, with no space before or after; a zero
\* component is left out, and for equal timestamps the result is "".
C6_NonZeroComponents ==
    tpc = "returned" =>
       LET out == execution_time.text
       IN  /\ Len(out) = IF NonZeroParts = <<>> THEN 0 ELSE 3 * Len(NonZeroParts) - 1
           /\ \A k \in 1..Len(NonZeroParts) :
                 /\ out[3 * k - 2] = ToString(NonZeroParts[k].n)
                 /\ out[3 * k - 1] = NonZeroParts[k].unit
                 /\ k < Len(NonZeroParts) => out[3 * k] = " "
           /\ start_time = end_time => out = <<>>
           /\ (start_time = T0 /\ end_time = T1) =>
                 out = <<"2", " days", " ", "2", " hours", " ",
                         "5", " minutes", " ", "9", " seconds">>
           /\ (start_time = T0 /\ end_time = PyDateTime(45, 0)) =>
                 out = <<"45", " seconds">>

C6_Witness ==
    /\ tpc = "returned"
    /\ start_time = T0
    /\ end_time = PyDateTime(2 * 3600 + 9, 0)
    /\ execution_time.text = <<"2", " hours", " ", "9", " seconds">>

\* the numbers emitted before a unit word
WholeSecondsApart ==
    /\ start_time.us = end_time.us
    /\ start_time.s <= end_time.s
Emitted(unit, values) ==
    \A i \in 1..Len(execution_time.text) :
       execution_time.text[i] = unit =>
          /\ i > 1
          /\ \E n \in values : execution_time.text[i - 1] = ToString(n)
\* C9: for start <= end a whole number of seconds apart, the components
\* satisfy days*86400 + hours*3600 + minutes*60 + seconds = elapsed seconds
\* with days >= 0, hours in 0..23, minutes and seconds in 0..59; an emitted
\* hours value is in 1..23, emitted minutes and seconds values are in 1..59.
C9_ComponentRanges ==
    (tpc = "returned" /\ WholeSecondsApart) =>
       /\ TimeParts.days * 86400 + TimeParts.hours * 3600
             + TimeParts.minutes * 60 + TimeParts.seconds
             = end_time.s - start_time.s
       /\ TimeParts.days >= 0
       /\ TimeParts.hours \in 0..23
       /\ TimeParts.minutes \in 0..59
       /\ TimeParts.seconds \in 0..59
       /\ Emitted(" hours", 1..23)
       /\ Emitted(" minutes", 1..59)
       /\ Emitted(" seconds", 1..59)

C9_Witness ==
    /\ tpc = "returned"
    /\ WholeSecondsApart
    /\ end_time.s - start_time.s = 86400 + 23 * 3600 + 59 * 60 + 59
    /\ execution_time.text = <<"1", " days", " ", "23", " hours", " ",
                            "59", " minutes", " ", "59", " seconds">>

====
